---- MODULE Spec2Model ----
(***************************************************************************)
(* Model of app.py: the line-by-line question parser parse_rrb_pdf and the *)
(* capture status computed by main from its result.                        *)
(*                                                                         *)
(* A string is a sequence of one-character strings, so Python's strip,     *)
(* replace, `in` and the two regular expressions are computed character by *)
(* character.  The check glyph U+2714 is written CheckGlyph.               *)
(***************************************************************************)
EXTENDS Integers, Sequences, FiniteSets, TLC

VARIABLES
    full_text,      \* the lines of full_text.split('\n') the loop has read so far
    current_q,      \* the question being collected, or None
    all_questions,  \* the records finalized so far
    pc,             \* "loop" | "done" | "reported"
    total_found,    \* main: len(preview_data)
    missing,        \* main: the list of missing ids (empty until computed)
    status,         \* main: "none" | "warning" | "perfect"
    pages,          \* pdf.pages: the text extract_text() gives for each page
    npage,          \* the number of pages the extraction loop has taken
    extracted,      \* the string full_text built from the pages
    store,          \* the content store: path -> revision id (sha), 0 when absent
    revs,           \* the number of revisions the store has issued
    gpc,            \* push_to_git: "idle" | "got" (between its GET and its PUT)
    fname,          \* push_to_git: the path being pushed
    sha,            \* push_to_git: the sha its GET gave, 0 for None
    last_put        \* the last PUT as the store received it, None before any

ioVars == <<pages, npage, extracted>>

gitVars == <<store, revs, gpc, fname, sha, last_put>>

vars == <<full_text, current_q, all_questions, pc, total_found, missing, status,
          ioVars, gitVars>>

(***************************************************************************)
(* Bounds of the model.                                                    *)
(***************************************************************************)
MaxLines == 6
MaxCopies == 2

\* the paper size main counts against
ExpectedTotal == 100

(***************************************************************************)
(* Characters and strings.                                                 *)
(***************************************************************************)
CheckGlyph == "#"

Digits == <<"0", "1", "2", "3", "4", "5", "6", "7", "8", "9">>

IsDigit(c) == \E d \in 1..10 : Digits[d] = c

DigitVal(c) == (CHOOSE d \in 1..10 : Digits[d] = c) - 1

IsSpace(c) == c = " "

\* str.strip(): drop leading and trailing whitespace
strip(s) ==
    LET keep == {k \in 1..Len(s) : ~IsSpace(s[k])}
        lo == CHOOSE k \in keep : \A m \in keep : k <= m
        hi == CHOOSE k \in keep : \A m \in keep : k >= m
    IN  IF keep = {} THEN <<>> ELSE SubSeq(s, lo, hi)

\* str.lstrip-like effect of the greedy \s* in opt_pattern
SkipSpaces(s) ==
    LET keep == {k \in 1..Len(s) : ~IsSpace(s[k])}
        lo == CHOOSE k \in keep : \A m \in keep : k <= m
    IN  IF keep = {} THEN <<>> ELSE SubSeq(s, lo, Len(s))

\* `sub in s`
Contains(s, sub) ==
    \E k \in 1..(Len(s) - Len(sub) + 1) : SubSeq(s, k, k + Len(sub) - 1) = sub

\* s.replace(old, ""): every non-overlapping occurrence, left to right
RECURSIVE Remove(_, _)
Remove(s, old) ==
    IF Len(s) < Len(old) \/ Len(old) = 0 THEN s
    ELSE IF SubSeq(s, 1, Len(old)) = old
         THEN Remove(SubSeq(s, Len(old) + 1, Len(s)), old)
         ELSE <<Head(s)>> \o Remove(Tail(s), old)

\* the decimal digits of n, as a marker line writes them
RECURSIVE DigitsOf(_)
DigitsOf(n) ==
    IF n < 10 THEN <<Digits[n + 1]>>
    ELSE Append(DigitsOf(n \div 10), Digits[(n % 10) + 1])

\* int(digits)
RECURSIVE ToInt(_)
ToInt(ds) ==
    IF ds = <<>> THEN 0
    ELSE 10 * ToInt(SubSeq(ds, 1, Len(ds) - 1)) + DigitVal(ds[Len(ds)])

Ans == <<"A", "n", "s">>

\* "Option missing from PDF": the parser only stores and compares it, never
\* scans it, so it is written as one token
Sentinel == <<"Option missing from PDF">>

None == <<>>

(***************************************************************************)
(* The two patterns.                                                       *)
(***************************************************************************)
\* a pattern Q\.(\d) that takes one digit only
OneDigit(s, k) == 1

\* number of characters \d+ takes from position k on (greedy)
DigitRun(s, k) ==
    LET stop == {m \in k..Len(s) : ~IsDigit(s[m])}
    IN  IF stop = {} THEN Len(s) - k + 1
        ELSE (CHOOSE m \in stop : \A n \in stop : m <= n) - k

\* q_pattern.match(line), q_pattern = Q\.(\d+); None when there is no match
q_match(line) ==
    IF Len(line) >= 3 /\ line[1] = "Q" /\ line[2] = "." /\ IsDigit(line[3])
    THEN [group0 |-> SubSeq(line, 1, 2 + DigitRun(line, 3)),
          group1 |-> SubSeq(line, 3, 2 + DigitRun(line, 3))]
    ELSE None

\* opt_pattern.match(line), opt_pattern = .*?([1-4])\.\s*(.*)
opt_match(line) ==
    LET at == {k \in 1..(Len(line) - 1) :
                  line[k] \in {"1", "2", "3", "4"} /\ line[k + 1] = "."}
        k0 == CHOOSE k \in at : \A m \in at : k <= m
    IN  IF at = {} THEN None
        ELSE [group1 |-> <<line[k0]>>,
              group2 |-> SkipSpaces(SubSeq(line, k0 + 2, Len(line)))]

(***************************************************************************)
(* Records.                                                                *)
(***************************************************************************)
\* while len(options) < 4: options.append("Option missing from PDF")
RECURSIVE Pad(_)
Pad(q) ==
    IF Len(q.options) < 4
    THEN Pad([q EXCEPT !.options = Append(@, Sentinel)])
    ELSE q

\* the records left in encounter order
Unsorted(qs) == qs

\* list.sort(key=lambda x: x['id']): ascending by id, equal ids keep their
\* order (the sort is stable)
SortById(qs) ==
    LET before(j, k) == qs[j].id < qs[k].id \/ (qs[j].id = qs[k].id /\ j < k)
        rank == [k \in 1..Len(qs) |-> Cardinality({j \in 1..Len(qs) : before(j, k)}) + 1]
    IN  [r \in 1..Len(qs) |-> qs[CHOOSE k \in 1..Len(qs) : rank[k] = r]]

(***************************************************************************)
(* The parts of the state a specification leaves alone.                    *)
(***************************************************************************)
Paths == {"p1", "p2"}

\* no page is held: the text was extracted before
IoIdle == pages = <<>> /\ npage = 0 /\ extracted = <<>>

\* an empty store and no push under way
GitIdle ==
    /\ store = [p \in Paths |-> 0]
    /\ revs = 0
    /\ gpc = "idle"
    /\ fname = "p1"
    /\ sha = 0
    /\ last_put = None

(***************************************************************************)
(* Input lines.                                                            *)
(***************************************************************************)
LineBlank == <<" ">>
LineQ35 == <<"Q", ".", "3", "5">>
LineQ3 == <<"Q", ".", "3", " ", "a">>
LineOpt == <<"1", ".", " ", "b">>
LineOptChecked == <<CheckGlyph, "2", ".", " ", "c">>
LineBody == <<" ", "a">>

LineSet == {LineBlank, LineQ35, LineQ3, LineOpt, LineOptChecked, LineBody}

\* a marker line whose trailing text holds the marker's own characters, and
\* option lines labelled 1. to 4.
LineQ1Ref == <<"Q", ".", "1", " ", "a", " ", "Q", ".", "1", "2">>
LineO1 == <<"1", ".", " ", "b">>
LineO2 == <<"2", ".", " ", "c">>
LineO3 == <<"3", ".", " ", "d">>
LineO4Checked == <<CheckGlyph, "4", ".", " ", "e">>

LineSetRef == {LineBlank, LineQ1Ref, LineO1, LineO2, LineO3, LineO4Checked, LineBody}

\* lines that hold a digit-period pair after other text, and a line that only
\* holds 'Ans'
LineDot == <<"a", " ", "3", ".", "1", "4">>
LineAnsDot == <<"A", "n", "s", " ", "3", ".", "1">>
LineAns == <<"A", "n", "s", " ", "b">>

LineSetDot == {LineBlank, LineQ3, LineOpt, LineBody, LineDot, LineAnsDot, LineAns}

\* an option line whose trailing text is 'Ans'
LineOptAns == <<"3", ".", " ", "A", "n", "s">>

LineSetAns == {LineBlank, LineQ3, LineOptChecked, LineOptAns, LineAnsDot, LineBody}

\* marker lines whose number lies outside 1..ExpectedTotal
LineQ0 == <<"Q", ".", "0", " ", "a">>
LineQ250 == <<"Q", ".", "2", "5", "0", " ", "a">>

LineSetRange == {LineBlank, LineQ0, LineQ250, LineQ3, LineOpt, LineBody}

(***************************************************************************)
(* parse_rrb_pdf: the loop over the lines of full_text.  Each step reads   *)
(* the next line of the document; the document ends at any point.          *)
(***************************************************************************)
Init ==
    /\ full_text = <<>>
    /\ current_q = None
    /\ all_questions = <<>>
    /\ pc = "loop"
    /\ total_found = 0
    /\ missing = <<>>
    /\ status = "none"
    /\ IoIdle
    /\ GitIdle

\* for line in full_text.split('\n'): the loop reads raw as its next line
Reads(raw) ==
    /\ pc = "loop"
    /\ Len(full_text) < MaxLines
    /\ full_text' = Append(full_text, raw)

\* if not line: continue
SkipBlank(S) ==
    \E raw \in S :
        /\ Reads(raw)
        /\ strip(raw) = <<>>
        /\ UNCHANGED <<current_q, all_questions, pc, total_found, missing, status, ioVars, gitVars>>

\* the record a marker line opens
NewQuestion(line) ==
    [id |-> ToInt(q_match(line).group1),
     question |-> strip(Remove(line, q_match(line).group0)),
     options |-> <<>>,
     answer |-> <<>>]

\* the finalization keeping only the question it finalizes
FinalizedAlone(qs, q) ==
    IF q # None /\ q.question # <<>> THEN <<Pad(q)>> ELSE qs

\* if current_q and current_q['question']: pad and append
Finalized(qs, q) ==
    IF q # None /\ q.question # <<>> THEN Append(qs, Pad(q)) ELSE qs

\* if q_match: finalize the previous question, open the next, continue
MarkerLine(S) ==
    \E raw \in S :
        LET line == strip(raw) IN
        /\ Reads(raw)
        /\ line # <<>>
        /\ q_match(line) # None
        /\ all_questions' = Finalized(all_questions, current_q)
        /\ current_q' = NewQuestion(line)
        /\ UNCHANGED <<pc, total_found, missing, status, ioVars, gitVars>>

\* a non-marker line before the first marker: `if current_q:` is false
IgnoreLine(S) ==
    \E raw \in S :
        LET line == strip(raw) IN
        /\ Reads(raw)
        /\ line # <<>>
        /\ q_match(line) = None
        /\ current_q = None
        /\ UNCHANGED <<current_q, all_questions, pc, total_found, missing, status, ioVars, gitVars>>

\* the answer test of an option line
ClaimsAnswer(line) == Contains(line, <<CheckGlyph>>) \/ Contains(line, Ans)

\* an option line appended without the test on the number collected
WithOptionNoCap(q, line) ==
    LET opt_text == strip(opt_match(line).group2)
    IN  [q EXCEPT !.options = Append(@, opt_text),
                  !.answer = IF ClaimsAnswer(line) THEN opt_text ELSE @]

\* the option branch keeping the first answer it detects
WithOptionFirstWins(q, line) ==
    LET opt_text == strip(opt_match(line).group2)
    IN  IF Len(q.options) < 4
        THEN [q EXCEPT !.options = Append(@, opt_text),
                       !.answer = IF ClaimsAnswer(line) /\ @ = <<>>
                                  THEN opt_text ELSE @]
        ELSE q

\* the effect of an option line on the current question
WithOption(q, line) ==
    LET opt_text == strip(opt_match(line).group2)
    IN  IF Len(q.options) < 4
        THEN [q EXCEPT !.options = Append(@, opt_text),
                       !.answer = IF ClaimsAnswer(line) THEN opt_text ELSE @]
        ELSE q

\* if opt_match: ...
OptionLine(S) ==
    \E raw \in S :
        LET line == strip(raw) IN
        /\ Reads(raw)
        /\ line # <<>>
        /\ q_match(line) = None
        /\ current_q # None
        /\ opt_match(line) # None
        /\ current_q' = WithOption(current_q, line)
        /\ UNCHANGED <<all_questions, pc, total_found, missing, status, ioVars, gitVars>>

\* the body branch without its test of the option count
WithBodyNoCap(q, line) ==
    IF ~Contains(line, Ans)
    THEN [q EXCEPT !.question = @ \o <<" ">> \o line]
    ELSE q

\* the effect of a non-option line on the current question
WithBody(q, line) ==
    IF Len(q.options) < 4 /\ ~Contains(line, Ans)
    THEN [q EXCEPT !.question = @ \o <<" ">> \o line]
    ELSE q

\* else: ...
BodyLine(S) ==
    \E raw \in S :
        LET line == strip(raw) IN
        /\ Reads(raw)
        /\ line # <<>>
        /\ q_match(line) = None
        /\ current_q # None
        /\ opt_match(line) = None
        /\ current_q' = WithBody(current_q, line)
        /\ UNCHANGED <<all_questions, pc, total_found, missing, status, ioVars, gitVars>>

\* if current_q: pad and append
WithLast(qs, q) == IF q # None THEN Append(qs, Pad(q)) ELSE qs

\* after the loop: add the last question, sort, return
Finish ==
    /\ pc = "loop"
    /\ all_questions' = SortById(WithLast(all_questions, current_q))
    /\ current_q' = IF current_q # None THEN Pad(current_q) ELSE None
    /\ pc' = "done"
    /\ UNCHANGED <<full_text, total_found, missing, status, ioVars, gitVars>>

Next ==
    \/ SkipBlank(LineSet)
    \/ MarkerLine(LineSet)
    \/ IgnoreLine(LineSet)
    \/ OptionLine(LineSet)
    \/ BodyLine(LineSet)
    \/ Finish

Spec == Init /\ [][Next]_vars

\* the same parser over documents made of the lines of LineSetRef
NextRef ==
    \/ SkipBlank(LineSetRef)
    \/ MarkerLine(LineSetRef)
    \/ IgnoreLine(LineSetRef)
    \/ OptionLine(LineSetRef)
    \/ BodyLine(LineSetRef)
    \/ Finish

SpecRef == Init /\ [][NextRef]_vars

\* the same parser over documents made of the lines of LineSetDot
NextDot ==
    \/ SkipBlank(LineSetDot)
    \/ MarkerLine(LineSetDot)
    \/ IgnoreLine(LineSetDot)
    \/ OptionLine(LineSetDot)
    \/ BodyLine(LineSetDot)
    \/ Finish

SpecDot == Init /\ [][NextDot]_vars

\* the same parser over documents made of the lines of LineSetAns
NextAns ==
    \/ SkipBlank(LineSetAns)
    \/ MarkerLine(LineSetAns)
    \/ IgnoreLine(LineSetAns)
    \/ OptionLine(LineSetAns)
    \/ BodyLine(LineSetAns)
    \/ Finish

SpecAns == Init /\ [][NextAns]_vars

\* the same parser over documents made of the lines of LineSetRange
NextRange ==
    \/ SkipBlank(LineSetRange)
    \/ MarkerLine(LineSetRange)
    \/ IgnoreLine(LineSetRange)
    \/ OptionLine(LineSetRange)
    \/ BodyLine(LineSetRange)
    \/ Finish

SpecRange == Init /\ [][NextRange]_vars


(***************************************************************************)
(* parse_rrb_pdf: the pages of the document are extracted, scrubbed and    *)
(* joined into full_text, which the loop then walks line by line.          *)
(***************************************************************************)
MaxPages == 2

\* the alternatives of the noise pattern, in the order the pattern tries them
NoiseTokens ==
    << <<"A", "d", "d", "a", "2", "4", "7">>,
       <<"A", "d", "d", "a", " ", "2", "4", "7">>,
       <<"G", "o", "o", "g", "l", "e", " ", "P", "l", "a", "y">>,
       <<"I", "N", "D", "I", "A", "N", " ", "R", "A", "I", "L", "W", "A", "Y", "S">>,
       <<"R", "A", "I", "L", "W", "A", "Y">>,
       <<"T", "e", "s", "t", " ", "P", "r", "i", "m", "e">> >>

StartsWith(s, t) == Len(t) <= Len(s) /\ SubSeq(s, 1, Len(t)) = t

\* re.sub(noise pattern, '', text): one pass from the left; at each position
\* the first alternative that matches is removed and the scan goes on after it
RECURSIVE Scrub(_)
Scrub(text) ==
    IF text = <<>> THEN <<>>
    ELSE LET hits == {t \in 1..Len(NoiseTokens) : StartsWith(text, NoiseTokens[t])}
             first == CHOOSE t \in hits : \A u \in hits : t <= u
         IN  IF hits # {}
             THEN Scrub(SubSeq(text, Len(NoiseTokens[first]) + 1, Len(text)))
             ELSE <<Head(text)>> \o Scrub(Tail(text))

\* text.split('\n')
Split(text) ==
    LET nl == {k \in 1..Len(text) : text[k] = "\n"}
        cut == [r \in 0..(Cardinality(nl) + 1) |->
                   IF r = 0 THEN 0
                   ELSE IF r = Cardinality(nl) + 1 THEN Len(text) + 1
                   ELSE CHOOSE k \in nl : Cardinality({m \in nl : m < k}) = r - 1]
    IN  [r \in 1..(Cardinality(nl) + 1) |-> SubSeq(text, cut[r - 1] + 1, cut[r] - 1)]

\* the pages of the documents: a page without text (None or ''), pages with
\* question lines, and pages holding noise
PageEmpty ==
   <<>>
PageQ3 ==
   <<"Q", ".", "3", " ", "a", " ", "R", "A", "I", "L", "W", "A", "Y", "\n",
    "#", "2", ".", " ", "c">>
PageQ35 ==
   <<"Q", ".", "3", "5", "\n", " ", "a">>
PageJoin ==
   <<"1", ".", " ", "R", "A", "I", "L", "R", "A", "I", "L", "W", "A", "Y",
    "W", "A", "Y">>
PageNoise ==
   <<"A", "d", "d", "a", "2", "4", "7">>

PageSet == {PageEmpty, PageQ3, PageQ35, PageJoin, PageNoise}

InitPages ==
    /\ pages \in UNION {[1..n -> PageSet] : n \in 0..MaxPages}
    /\ npage = 0
    /\ extracted = <<>>
    /\ full_text = <<>>
    /\ current_q = None
    /\ all_questions = <<>>
    /\ pc = "open"
    /\ total_found = 0
    /\ missing = <<>>
    /\ status = "none"
    /\ GitIdle

\* for page in pdf.pages: text = page.extract_text(); if text: scrub, append
ExtractPage ==
    /\ pc = "open"
    /\ npage < Len(pages)
    /\ npage' = npage + 1
    /\ extracted' = IF pages[npage + 1] # <<>>
                    THEN extracted \o Scrub(pages[npage + 1]) \o <<"\n">>
                    ELSE extracted
    /\ UNCHANGED <<pages, full_text, current_q, all_questions, pc, total_found,
                   missing, status, gitVars>>

\* the pages are exhausted: the loop over full_text.split('\n') starts
EndPages ==
    /\ pc = "open"
    /\ npage = Len(pages)
    /\ pc' = "loop"
    /\ UNCHANGED <<full_text, current_q, all_questions, total_found, missing,
                   status, ioVars, gitVars>>

\* the line the loop reads next, none when the lines are exhausted
NextLine ==
    IF Len(full_text) < Len(Split(extracted))
    THEN {Split(extracted)[Len(full_text) + 1]}
    ELSE {}

\* the loop has read the last line of full_text
FinishPages == NextLine = {} /\ Finish

NextPages ==
    \/ ExtractPage
    \/ EndPages
    \/ SkipBlank(NextLine)
    \/ MarkerLine(NextLine)
    \/ IgnoreLine(NextLine)
    \/ OptionLine(NextLine)
    \/ BodyLine(NextLine)
    \/ FinishPages

SpecPages == InitPages /\ [][NextPages]_vars

(***************************************************************************)
(* push_to_git against the repository contents store.  store maps a path   *)
(* to the revision (sha) of its content, 0 when the path does not exist;   *)
(* other sessions of the application write and delete the same paths.      *)
(***************************************************************************)
MaxRev == 3

InitGit ==
    /\ store \in [Paths -> {0, 1}]
    /\ revs = 1
    /\ gpc = "idle"
    /\ fname = "p1"
    /\ sha = 0
    /\ last_put = None
    /\ full_text = <<>>
    /\ current_q = None
    /\ all_questions = <<>>
    /\ pc = "push"
    /\ total_found = 0
    /\ missing = <<>>
    /\ status = "none"
    /\ IoIdle

\* res = requests.get(url); sha = res.json().get('sha') if 200 else None
PushGet ==
    /\ gpc = "idle"
    /\ revs < MaxRev
    /\ \E p \in Paths :
           /\ fname' = p
           /\ sha' = store[p]
    /\ gpc' = "put"
    /\ UNCHANGED <<store, revs, last_put, full_text, current_q, all_questions,
                   pc, total_found, missing, status, ioVars>>

\* the GET does not answer 200 for a reason other than absence (rate limit,
\* server error, lost authorization): sha = None
PushGetFails ==
    /\ gpc = "idle"
    /\ revs < MaxRev
    /\ \E p \in Paths : fname' = p
    /\ sha' = 0
    /\ gpc' = "put"
    /\ UNCHANGED <<store, revs, last_put, full_text, current_q, all_questions,
                   pc, total_found, missing, status, ioVars>>

\* the store accepts a write that names the current revision of an existing
\* path, or names none for an absent path
Accepts(p, s) == s = store[p]

\* if sha: payload["sha"] = sha; requests.put(url, json=payload)
PushPut ==
    /\ gpc = "put"
    /\ last_put' = [path |-> fname, sha |-> sha, current |-> store[fname],
                    accepted |-> Accepts(fname, sha)]
    /\ IF Accepts(fname, sha)
       THEN store' = [store EXCEPT ![fname] = revs + 1] /\ revs' = revs + 1
       ELSE UNCHANGED <<store, revs>>
    /\ gpc' = "idle"
    /\ UNCHANGED <<fname, sha, full_text, current_q, all_questions, pc,
                   total_found, missing, status, ioVars>>

\* the revisions left to the other sessions: one is kept for a push under way
OtherMayWrite == revs < MaxRev - (IF gpc = "put" THEN 1 ELSE 0)

\* another session's push_to_git writes a path
OtherWrite ==
    /\ OtherMayWrite
    /\ \E p \in Paths : store' = [store EXCEPT ![p] = revs + 1]
    /\ revs' = revs + 1
    /\ UNCHANGED <<gpc, fname, sha, last_put, full_text, current_q,
                   all_questions, pc, total_found, missing, status, ioVars>>

\* another session's delete_from_git deletes a path
OtherDelete ==
    /\ \E p \in Paths : store[p] # 0 /\ store' = [store EXCEPT ![p] = 0]
    /\ UNCHANGED <<revs, gpc, fname, sha, last_put, full_text, current_q,
                   all_questions, pc, total_found, missing, status, ioVars>>

NextGit ==
    \/ PushGet
    \/ PushGetFails
    \/ PushPut
    \/ OtherWrite
    \/ OtherDelete

SpecGit == InitGit /\ [][NextGit]_vars

(***************************************************************************)
(* main: the capture status of the first uploaded file.                    *)
(***************************************************************************)
\* the numbers of S as a list in ascending order
Ascending(S) ==
    [r \in 1..Cardinality(S) |->
        CHOOSE k \in S : Cardinality({m \in S : m < k}) = r - 1]

\* [i for i in range(1, 101) if i not in found_ids]
Missing(found_ids) ==
    Ascending({k \in 1..ExpectedTotal :
                  ~\E j \in 1..Len(found_ids) : found_ids[j] = k})

\* preview_data = parse_rrb_pdf(files[0]) has returned: count, warn or praise
Report ==
    /\ pc = "done"
    /\ total_found' = Len(all_questions)
    /\ IF Len(all_questions) < ExpectedTotal
       THEN /\ status' = "warning"
            /\ missing' = Missing([k \in 1..Len(all_questions) |-> all_questions[k].id])
       ELSE /\ status' = "perfect"
            /\ missing' = <<>>
    /\ pc' = "reported"
    /\ UNCHANGED <<full_text, current_q, all_questions, ioVars, gitVars>>

\* A document of one line 'Q.n a' per question, in ascending order of n: every
\* number of 1..ExpectedTotal once, except the numbers of ProbeIds, which the
\* document holds 0..MaxCopies times.
ProbeIds == {1, 5, 7, ExpectedTotal, ExpectedTotal + 1}

MarkerLineOf(n) == <<"Q", ".">> \o DigitsOf(n) \o <<" ", "a">>

\* the lines of the numbers a..b, one each
Run(a, b) == [k \in 1..(b - a + 1) |-> MarkerLineOf(a + k - 1)]

\* c lines of the number n
Copies(n, c) == [k \in 1..c |-> MarkerLineOf(n)]

Document(copies) ==
    Copies(1, copies[1]) \o Run(2, 4) \o Copies(5, copies[5]) \o Run(6, 6)
        \o Copies(7, copies[7]) \o Run(8, ExpectedTotal - 1)
        \o Copies(ExpectedTotal, copies[ExpectedTotal])
        \o Copies(ExpectedTotal + 1, copies[ExpectedTotal + 1])

\* the state in which parse_rrb_pdf returns on such a document
InitMain ==
    \E copies \in [ProbeIds -> 0..MaxCopies] :
        LET text == Document(copies)
            qs == [k \in 1..Len(text) |-> Pad(NewQuestion(strip(text[k])))]
        IN  /\ full_text = text
            /\ all_questions = qs
            /\ current_q = qs[Len(qs)]
            /\ pc = "done"
            /\ total_found = 0
            /\ missing = <<>>
            /\ status = "none"
            /\ IoIdle
            /\ GitIdle

SpecMain == InitMain /\ [][Report]_vars

(***************************************************************************)
(* Properties of the records parse_rrb_pdf returns.                        *)
(***************************************************************************)
Returned == pc = "done"

Records == {all_questions[k] : k \in 1..Len(all_questions)}

Ids == {q.id : q \in Records}

\* What the input lines are, read off the lines themselves.
MarkerLines == {LineQ35, LineQ3, LineQ1Ref, LineQ0, LineQ250}

OptionLines ==
    {LineOpt, LineOptChecked, LineO1, LineO2, LineO3, LineO4Checked, LineOptAns}

IsMarkerLine(raw) == raw \in MarkerLines

IsOptionLine(raw) == raw \in OptionLines

IsChecked(raw) == raw \in {LineOptChecked, LineO4Checked}

\* the number written in a marker line
MarkerNumber(raw) ==
    CASE raw = LineQ35 -> 35
      [] raw = LineQ3 -> 3
      [] raw = LineQ1Ref -> 1
      [] raw = LineQ0 -> 0
      [] raw = LineQ250 -> 250

\* the text that follows the marker on a marker line
MarkerText(raw) ==
    CASE raw = LineQ35 -> <<>>
      [] raw \in {LineQ3, LineQ0, LineQ250} -> <<"a">>
      [] raw = LineQ1Ref -> <<"a", " ", "Q", ".", "1", "2">>

\* the digit that labels an option line
Label(raw) ==
    CASE raw \in {LineOpt, LineO1} -> 1
      [] raw \in {LineOptChecked, LineO2} -> 2
      [] raw \in {LineO3, LineOptAns} -> 3
      [] raw = LineO4Checked -> 4

\* the text that follows the label of an option line
TrailingText(raw) ==
    CASE raw \in {LineOpt, LineO1} -> <<"b">>
      [] raw \in {LineOptChecked, LineO2} -> <<"c">>
      [] raw = LineO3 -> <<"d">>
      [] raw = LineO4Checked -> <<"e">>
      [] raw = LineOptAns -> Ans

\* the last line of the block the marker line at a opens
BlockEnd(a) ==
    LET later == {k \in (a + 1)..Len(full_text) : IsMarkerLine(full_text[k])}
    IN  IF later = {} THEN Len(full_text)
        ELSE (CHOOSE k \in later : \A m \in later : k <= m) - 1

IsBlock(a) == a \in 1..Len(full_text) /\ IsMarkerLine(full_text[a])

\* the option lines of the block at a, in encounter order
RECURSIVE OptionsFrom(_, _)
OptionsFrom(a, b) ==
    IF a > b THEN <<>>
    ELSE IF IsOptionLine(full_text[a])
         THEN <<full_text[a]>> \o OptionsFrom(a + 1, b)
         ELSE OptionsFrom(a + 1, b)

BlockOptions(a) == OptionsFrom(a + 1, BlockEnd(a))

\* C1: every record parse_rrb_pdf returns has exactly four options, whatever
\* number of option lines its block held.
C1_FourOptions ==
    Returned => \A q \in Records : Len(q.options) = 4

\* a returned record whose block held five option lines
C1_Witness ==
    /\ Returned
    /\ Len(full_text) = 6
    /\ full_text[1] = LineQ3
    /\ \A k \in 2..6 : IsOptionLine(full_text[k])
    /\ Len(all_questions) = 1
    /\ Len(all_questions[1].options) = 4

\* C2: every returned record's answer is one of its options and is not empty;
\* when no line of the text claims an answer, the answer is the first option.
C2_AnswerAmongOptions ==
    Returned =>
        \A q \in Records :
            /\ \E j \in 1..Len(q.options) : q.options[j] = q.answer
            /\ q.answer # <<>>
            /\ (\A k \in 1..Len(full_text) : ~ClaimsAnswer(strip(full_text[k])))
                   => q.answer = q.options[1]

\* C3: no two returned records have the same id.
C3_UniqueIds ==
    Returned =>
        \A j, k \in 1..Len(all_questions) :
            j # k => all_questions[j].id # all_questions[k].id

\* C4: the returned records are ordered by id ascending, whatever the order
\* of the markers in the text.
C4_SortedById ==
    Returned =>
        \A j, k \in 1..Len(all_questions) :
            j < k => all_questions[j].id <= all_questions[k].id

\* a text with marker 35 before marker 3, both returned, 3 first
C4_Witness ==
    /\ Returned
    /\ \E a, b \in 1..Len(full_text) :
           a < b /\ full_text[a] = LineQ35 /\ full_text[b] = LineQ3
    /\ Len(all_questions) = 2
    /\ all_questions[1].id = 3
    /\ all_questions[2].id = 35

\* a block made of a marker line with text and four option lines labelled
\* 1. to 4., exactly one of them checked
IsScenarioA(a) ==
    /\ IsBlock(a)
    /\ MarkerText(full_text[a]) # <<>>
    /\ BlockEnd(a) = a + 4
    /\ \A k \in 1..4 : IsOptionLine(full_text[a + k]) /\ Label(full_text[a + k]) = k
    /\ Cardinality({k \in 1..4 : IsChecked(full_text[a + k])}) = 1

\* C5: a block 'Q.n <text>' followed by four option lines labelled 1. to 4.,
\* exactly one checked, yields the record with id n, question <text>, the four
\* trailing texts in encounter order and the checked line's text as answer.
C5_ScenarioA ==
    Returned =>
        \A a \in 1..Len(full_text) :
            IsScenarioA(a) =>
                [id |-> MarkerNumber(full_text[a]),
                 question |-> MarkerText(full_text[a]),
                 options |-> [k \in 1..4 |-> TrailingText(full_text[a + k])],
                 answer |-> TrailingText(
                     full_text[a + CHOOSE k \in 1..4 : IsChecked(full_text[a + k])])]
                    \in Records

\* the options the claim expects of a block with k < 4 option lines
PaddedOptions(a) ==
    [k \in 1..4 |->
        IF k <= Len(BlockOptions(a)) THEN TrailingText(BlockOptions(a)[k])
        ELSE Sentinel]

\* C6: a block with k < 4 option lines yields a record whose options are the
\* k option texts in encounter order followed by 4-k sentinels, and whose
\* answer is one of the four, and not the sentinel once a line was checked.
C6_MissingOptions ==
    Returned =>
        \A a \in 1..Len(full_text) :
            (IsBlock(a) /\ Len(BlockOptions(a)) < 4) =>
                \E q \in Records :
                    /\ q.id = MarkerNumber(full_text[a])
                    /\ q.options = PaddedOptions(a)
                    /\ \E j \in 1..4 : q.options[j] = q.answer
                    /\ (\E k \in 1..Len(BlockOptions(a)) : IsChecked(BlockOptions(a)[k]))
                           => q.answer # Sentinel

\* a block made of a marker line without text, one body line, then option
\* lines only
IsScenarioB(a) ==
    /\ IsBlock(a)
    /\ MarkerText(full_text[a]) = <<>>
    /\ a + 1 <= BlockEnd(a)
    /\ full_text[a + 1] = LineBody
    /\ \A k \in (a + 2)..BlockEnd(a) : IsOptionLine(full_text[k])

\* C7: when the marker line carries no text, the question text is exactly the
\* first following body line, with no leading or trailing separator.
C7_QuestionSeed ==
    Returned =>
        \A a \in 1..Len(full_text) :
            IsScenarioB(a) =>
                \E q \in Records :
                    q.id = MarkerNumber(full_text[a]) /\ q.question = <<"a">>

TextHas(raw) == \E k \in 1..Len(full_text) : full_text[k] = raw

\* C8: the marker of 35 is never taken for a marker of 3: a record with id 3
\* comes only from a Q.3 marker line, and a text whose only markers are Q.35
\* yields a record 35 and no other.
C8_MarkerBoundary ==
    Returned =>
        /\ (3 \in Ids => TextHas(LineQ3))
        /\ (TextHas(LineQ35) /\ ~TextHas(LineQ3)) => Ids = {35}

\* a returned text whose only marker is Q.35
C8_Witness ==
    /\ Returned
    /\ TextHas(LineQ35)
    /\ ~TextHas(LineQ3)
    /\ Ids = {35}

\* C9: every marker of the text has a record with its id, also when its block
\* yields no question text; that record's question is then empty.
C9_EmptyQuestionKept ==
    Returned =>
        \A a \in 1..Len(full_text) :
            IsBlock(a) =>
                \E q \in Records :
                    /\ q.id = MarkerNumber(full_text[a])
                    /\ (BlockEnd(a) = a /\ MarkerText(full_text[a]) = <<>>)
                           => q.question = <<>>

\* C10: the caller is given the gap report {1..ExpectedTotal} minus the ids
\* present, and a complete capture is reported only when no id of the range
\* is absent.
C10_GapReport ==
    pc = "reported" =>
        /\ {missing[k] : k \in 1..Len(missing)} = (1..ExpectedTotal) \ Ids
        /\ status = "perfect" => (1..ExpectedTotal) \subseteq Ids

\* the pages the extraction loop has gone through
Scrubbed == {Scrub(pages[k]) : k \in 1..npage}

\* C11: scrubbing is idempotent: scrubbing a scrubbed page changes nothing,
\* and a scrubbed page holds no noise token, also none formed when the two
\* sides of a removed token join.
C11_ScrubIdempotent ==
    \A t \in Scrubbed :
        /\ Scrub(t) = t
        /\ \A i \in 1..Len(NoiseTokens) : ~Contains(t, NoiseTokens[i])

\* no page of the document has text
NoUsableText == \A k \in 1..Len(pages) : pages[k] = <<>>

\* C12: when no page yields text, the parse does not return a record set: it
\* ends with a 'no content' failure.
C12_NoContentSignal == NoUsableText => ~Returned

\* the option test of the claim: after an optional leading glyph and optional
\* whitespace, a digit of 1..4 and a period
StartsAsOption(line) ==
    LET a == IF line # <<>> /\ line[1] = CheckGlyph THEN 2 ELSE 1
        rest == SkipSpaces(SubSeq(line, a, Len(line)))
    IN  /\ Len(rest) >= 2
        /\ rest[1] \in {"1", "2", "3", "4"}
        /\ rest[2] = "."

\* the loop reads raw as a line of the block of the current question
ReadsInBlock(raw) ==
    /\ pc = "loop"
    /\ pc' = "loop"
    /\ current_q # None
    /\ full_text' = Append(full_text, raw)
    /\ strip(raw) # <<>>
    /\ ~IsMarkerLine(raw)

\* C13: a line of a block adds an option only if it starts as an option line;
\* a line that holds a digit-period pair later on ('a 3.14') is a body line:
\* it adds no option and is appended to the question text.
C13_OptionTest ==
    [][\A raw \in LineSetDot :
          (ReadsInBlock(raw) /\ ~StartsAsOption(strip(raw))) =>
              /\ current_q'.options = current_q.options
              /\ (Len(current_q.options) < 4 /\ ~Contains(strip(raw), Ans)) =>
                     current_q'.question = current_q.question \o <<" ">> \o strip(raw)]_vars

\* C16: a line that is not an option line and holds 'Ans' changes neither the
\* question text, the options nor the answer; any other non-option line read
\* while fewer than four options are held is appended after a single space.
C16_AnsLineDropped ==
    [][\A raw \in LineSetDot :
          (ReadsInBlock(raw) /\ ~StartsAsOption(strip(raw))) =>
              IF Contains(strip(raw), Ans)
              THEN current_q' = current_q
              ELSE Len(current_q.options) < 4 =>
                       current_q' = [current_q EXCEPT
                           !.question = @ \o <<" ">> \o strip(raw)]]_vars

\* C14: once four options are held for the current question, every further
\* line up to the next marker leaves its question text and its options
\* unchanged, whether the line is an option line or not.
C14_FullQuestionFrozen ==
    [][(pc = "loop" /\ current_q # None /\ Len(current_q.options) = 4) =>
          \A raw \in LineSet :
              (full_text' = Append(full_text, raw) /\ ~IsMarkerLine(raw)) =>
                  /\ current_q'.question = current_q.question
                  /\ current_q'.options = current_q.options]_vars

\* four option lines after the marker line, then a body line: the question
\* text is still the marker line's
C14_Witness ==
    /\ pc = "loop"
    /\ Len(full_text) = 6
    /\ full_text[1] = LineQ3
    /\ \A k \in 2..5 : IsOptionLine(full_text[k])
    /\ full_text[6] = LineBody
    /\ current_q.question = <<"a">>
    /\ Len(current_q.options) = 4

\* the line carries the check glyph or 'Ans'
IsClaimedAnswer(raw) == Contains(raw, <<CheckGlyph>>) \/ Contains(raw, Ans)

\* C15: whenever a line of a block is both an option line and a claimed
\* answer line, the answer of the question becomes that line's trailing text,
\* whatever answer was detected before.
C15_AnswerLastWins ==
    [][\A raw \in LineSetAns :
          (ReadsInBlock(raw) /\ IsOptionLine(raw) /\ IsClaimedAnswer(raw)) =>
              current_q'.answer = TrailingText(raw)]_vars

\* C15 as amended: such a line read while fewer than four options are held
\* makes its trailing text the answer, whatever answer was detected before;
\* read once four options are held it leaves the answer as it was.
C15_AnswerWhileOpen ==
    [][\A raw \in LineSetAns :
          (ReadsInBlock(raw) /\ IsOptionLine(raw) /\ IsClaimedAnswer(raw)) =>
              current_q'.answer =
                  IF Len(current_q.options) < 4 THEN TrailingText(raw)
                  ELSE current_q.answer]_vars

\* a checked option line, then an option line holding 'Ans': the second
\* overwrote the answer of the first
C15_Witness ==
    /\ pc = "loop"
    /\ full_text = <<LineQ3, LineOptChecked, LineOptAns>>
    /\ current_q.options = <<<<"c">>, Ans>>
    /\ current_q.answer = Ans

\* the record of the block that the marker line at a opens in text,
\* computed from the lines of that block alone
RECURSIVE BlockFold(_, _, _, _)
BlockFold(text, q, k, b) ==
    IF k > b THEN q
    ELSE LET line == strip(text[k])
         IN  BlockFold(text,
                       IF line = <<>> THEN q
                       ELSE IF opt_match(line) # None THEN WithOption(q, line)
                       ELSE WithBody(q, line),
                       k + 1, b)

BlockRecord(text, a) ==
    LET later == {k \in (a + 1)..Len(text) : IsMarkerLine(text[k])}
        end == IF later = {} THEN Len(text)
               ELSE (CHOOSE k \in later : \A m \in later : k <= m) - 1
    IN  Pad(BlockFold(text, NewQuestion(strip(text[a])), a + 1, end))

\* the marker lines read so far, and the one that opened the current block
MarkersRead == {k \in 1..Len(full_text) : IsMarkerLine(full_text[k])}

LastMarker == CHOOSE k \in MarkersRead : \A m \in MarkersRead : m <= k

\* the number of copies of q in qs
CopiesIn(qs, q) == Cardinality({k \in 1..Len(qs) : qs[k] = q})

\* C17: once the next marker line has been read, no later line changes the
\* record of an earlier question: the records emitted so far stay as they
\* are, and a record that is added is the record of the lines of its own
\* block, from its marker to the next marker or the end of the text.
C17_BlockIsolation ==
    [][/\ pc' = "loop" =>
            /\ SubSeq(all_questions', 1, Len(all_questions)) = all_questions
            /\ Len(all_questions') > Len(all_questions) =>
                   \E a \in {LastMarker} :
                       all_questions' =
                           Append(all_questions, BlockRecord(full_text', a))
       /\ pc' = "done" =>
            /\ \A q \in Records : CopiesIn(all_questions, q) <= CopiesIn(all_questions', q)
            /\ Len(all_questions') =
                   Len(all_questions) + (IF current_q # None THEN 1 ELSE 0)
            /\ current_q # None =>
                   \E r \in {BlockRecord(full_text, LastMarker)} :
                       CopiesIn(all_questions, r) < CopiesIn(all_questions', r)]_vars

\* the record of question 3 is emitted, and option lines of the block of
\* question 250 were read after it
C17_Witness ==
    /\ pc = "loop"
    /\ Len(all_questions) = 1
    /\ all_questions[1].id = 3
    /\ all_questions[1].options = <<<<"b">>, Sentinel, Sentinel, Sentinel>>
    /\ current_q # None
    /\ current_q.id = 250
    /\ Len(current_q.options) >= 2

\* C18: only the marker at the beginning of a marker line is removed: the
\* question opens with all the text that follows it, unchanged, also when
\* that text holds the marker's characters.
C18_MarkerStripped ==
    [][\A raw \in LineSetRef :
          (pc = "loop" /\ full_text' = Append(full_text, raw) /\ IsMarkerLine(raw)) =>
              /\ current_q'.id = MarkerNumber(raw)
              /\ current_q'.question = MarkerText(raw)]_vars

\* C19: every returned record has an id within 1..ExpectedTotal; a marker
\* line whose number lies outside that range gives no record.
C19_IdsInRange ==
    Returned => \A q \in Records : q.id \in 1..ExpectedTotal

\* C20: whenever the path exists in the store at the moment push_to_git
\* writes it, the write carries the current revision of the path: never no
\* sha, never a stale one.
C20_PushCarriesCurrentSha ==
    (last_put # None /\ last_put.current # 0) => last_put.sha = last_put.current

====
